---- MODULE Spec2Model ----
(***************************************************************************)
(* Model of the backtest evaluator of src/app.js: backtest(series, low,    *)
(* high, horizonMin) with its two alert policies (Baseline, Improved), and *)
(* of the runBacktest handler that calls it.                               *)
(*                                                                         *)
(* Numbers.  Glucose values and thresholds are integers, timestamps are    *)
(* milliseconds that are whole minutes (multiples of 60000), so that every *)
(* quotient the code forms is a rational number; a quotient is kept as a   *)
(* record [n, d] with d > 0 and compared by cross-multiplication, which is *)
(* exact where the code's doubles round.  Timestamps are relative to the   *)
(* start of the trace instead of Date.now().                               *)
(*                                                                         *)
(* Indices.  The code's arrays are 0-based: At(s, j) is series[j].         *)
(***************************************************************************)
EXTENDS Integers, Sequences, FiniteSets, TLC

VARIABLES
    caller,            \* who calls backtest: the runBacktest handler or a direct call
    seriesMissing,     \* the series argument is null/undefined
    series,            \* the series argument: sequence of [tMs, bg]
    low, high,         \* the target range as passed to backtest
    horizonMin,        \* the horizon argument, minutes
    pc,                \* position: "idle", "loop", "returned", "done"
    i,                 \* loop index of backtest
    horizonSteps,      \* backtest's horizonSteps when finite
    horizonInfinite,   \* horizonSteps is Infinity (horizonMin / 0)
    baseTP, baseFP, baseFN,
    impTP, impFP, impFN,
    active, persist, cooldownUntilMs,
    baseAlert, impAlert, trueEvent, rawRisk,   \* the last iteration's locals
    m, proj, smoothBg, smoothProj,             \* the last iteration's locals
    prevRawRisk,       \* history: rawRisk of the iteration before the last one
    fired,             \* history: the timestamps at which Improved fired
    result,            \* what backtest returned
    backtestOut,       \* what runBacktest wrote to ui.backtestOut
    days, approxPoints,  \* the arguments of generateSyntheticSeries
    genM,              \* generateSyntheticSeries: the loop variable m, minutes
    draws,             \* the unclamped values the random draws give, cyclically
    twinActive, twinPersist, twinCooldownUntilMs,   \* a second run of the
    twinAlert, twinTP, twinFP, twinFN               \* Improved policy

genVars == << days, approxPoints, genM, draws >>

twinVars == << twinActive, twinPersist, twinCooldownUntilMs,
               twinAlert, twinTP, twinFP, twinFN >>

vars == << caller, seriesMissing, series, low, high, horizonMin, pc, i,
           horizonSteps, horizonInfinite, baseTP, baseFP, baseFN,
           impTP, impFP, impFN, active, persist, cooldownUntilMs,
           baseAlert, impAlert, trueEvent, rawRisk, m, proj, smoothBg,
           smoothProj, prevRawRisk, fired, result, backtestOut,
           genVars, twinVars >>

(***************************************************************************)
(* Program constants.                                                      *)
(***************************************************************************)
MsPerMin == 60000
MinSamples == 20
LoopStart == 10
SlopeWindow == 6
PersistNeeded == 2
CooldownMin == 60
HypoExitMargin == 5
HyperExitMargin == 10

(***************************************************************************)
(* Arithmetic helpers.                                                     *)
(***************************************************************************)
Max(a, b) == IF a >= b THEN a ELSE b
Min(a, b) == IF a <= b THEN a ELSE b

At(s, j) == s[j + 1]

Rat(n, d) == [n |-> n, d |-> d]
RatAdd(a, b) == Rat(a.n * b.d + b.n * a.d, a.d * b.d)
RatMulInt(a, k) == Rat(a.n * k, a.d)
RatLtInt(a, c) == a.n < c * a.d
RatGtInt(a, c) == a.n > c * a.d
RatEq(a, b) == a.n * b.d = b.n * a.d
RatIsZero(a) == a.n = 0

\* Math.round(n / d) for d # 0: floor(n/d + 1/2)
MathRound(n, d) ==
    IF d > 0 THEN (2 * n + d) \div (2 * d)
             ELSE (-(2 * n + d)) \div (-(2 * d))

(***************************************************************************)
(* getPrefs (the part that fixes the target range): low clamped to         *)
(* [40,300], high to [40,400], then forced to low < high.                  *)
(***************************************************************************)
clampNumber(n, lo, hi) == Max(lo, Min(hi, n))

getPrefs(rawLow, rawHigh) ==
    LET lw       == clampNumber(rawLow, 40, 300)
        hg       == clampNumber(rawHigh, 40, 400)
        fixedLow == Min(lw, hg - 1)
        fixedHigh == Max(hg, fixedLow + 1)
    IN  [low |-> fixedLow, high |-> fixedHigh]

(***************************************************************************)
(* backtest: the horizon in steps.                                         *)
(***************************************************************************)
\* stepMin = (series[1].tMs - series[0].tMs) / 60000
StepMin(s) == (At(s, 1).tMs - At(s, 0).tMs) \div MsPerMin

\* horizonMin / stepMin divides by zero: the quotient is Infinity and so is
\* Math.max(1, Math.round(Infinity))
HorizonIsInfinite(s, H) == StepMin(s) = 0

\* variant: the rounded quotient without the lower limit of 1
HorizonStepsUnclamped(s, H) == MathRound(H, StepMin(s))

\* horizonSteps = Math.max(1, Math.round(horizonMin / stepMin)), stepMin # 0
HorizonSteps(s, H) == Max(1, MathRound(H, StepMin(s)))

\* variant: the length test off by one
InsufficientOffByOne(missing, s) == missing \/ Len(s) < MinSamples - 1

\* !series || series.length < 20
Insufficient(missing, s) == missing \/ Len(s) < MinSamples

\* the loop condition  i < series.length - horizonSteps
LoopCond(s, idx, hs, inf) == ~inf /\ idx < Len(s) - hs

(***************************************************************************)
(* backtest: slope and projection.                                         *)
(***************************************************************************)
slopePerMin(s, idx, k) ==
    LET start == Max(0, idx - k + 1)
        t0    == At(s, start).tMs
        t1    == At(s, idx).tMs
        dt    == (t1 - t0) \div MsPerMin
    IN  IF dt <= 0 THEN Rat(0, 1)
        ELSE Rat(At(s, idx).bg - At(s, start).bg, dt)

projectedBg(s, idx, H) ==
    RatAdd(Rat(At(s, idx).bg, 1), RatMulInt(slopePerMin(s, idx, SlopeWindow), H))

(***************************************************************************)
(* backtest: ground truth of one index.                                    *)
(***************************************************************************)
\* variant: an empty look-ahead window
FutureEmpty(s, idx, hs) == << >>

\* variant: the window starts at the current sample
FutureFromNow(s, idx, hs) ==
    [ j \in 1 .. (Min(idx + hs, Len(s)) - idx) |-> At(s, idx + j - 1) ]

\* series.slice(i + 1, i + 1 + horizonSteps); slice stops at the array's end
Future(s, idx, hs) ==
    [ j \in 1 .. (Min(idx + 1 + hs, Len(s)) - (idx + 1)) |-> At(s, idx + j) ]

TrueHypo(s, lo, idx, hs) ==
    \E j \in DOMAIN Future(s, idx, hs) : Future(s, idx, hs)[j].bg < lo

TrueHyper(s, hi, idx, hs) ==
    \E j \in DOMAIN Future(s, idx, hs) : Future(s, idx, hs)[j].bg > hi

TrueEvent(s, lo, hi, idx, hs) ==
    TrueHypo(s, lo, idx, hs) \/ TrueHyper(s, hi, idx, hs)

(***************************************************************************)
(* backtest: the Baseline decision.                                        *)
(***************************************************************************)
BaseHypoAlert(s, lo, idx, H) ==
    (At(s, idx).bg < lo) \/ RatLtInt(projectedBg(s, idx, H), lo)

BaseHyperAlert(s, hi, idx, H) ==
    (At(s, idx).bg > hi) \/ RatGtInt(projectedBg(s, idx, H), hi)

BaseAlert(s, lo, hi, idx, H) ==
    BaseHypoAlert(s, lo, idx, H) \/ BaseHyperAlert(s, hi, idx, H)

(***************************************************************************)
(* backtest: the Improved decision.                                        *)
(***************************************************************************)
\* variant: the sum of the three samples, not their mean
SmoothBgUndivided(s, idx) ==
    Rat(At(s, idx).bg + At(s, idx - 1).bg + At(s, idx - 2).bg, 1)

\* smoothBg = (s1 + s2 + s3) / 3
SmoothBg(s, idx) ==
    Rat(At(s, idx).bg + At(s, idx - 1).bg + At(s, idx - 2).bg, 3)

SmoothProj(s, idx, H) ==
    RatAdd(SmoothBg(s, idx), RatMulInt(slopePerMin(s, idx, SlopeWindow), H))

RawHypo(s, lo, idx, H) ==
    RatLtInt(SmoothBg(s, idx), lo) \/ RatLtInt(SmoothProj(s, idx, H), lo)

RawHyper(s, hi, idx, H) ==
    RatGtInt(SmoothBg(s, idx), hi) \/ RatGtInt(SmoothProj(s, idx, H), hi)

RawRisk(s, lo, hi, idx, H) ==
    IF RawHypo(s, lo, idx, H) THEN "HYPO"
    ELSE IF RawHyper(s, hi, idx, H) THEN "HYPER" ELSE "NONE"

\* variant: a risk of the active alert's kind is not counted again
NextPersistNewKindOnly(p, risk, act) ==
    IF risk # "NONE"
    THEN (IF risk = act THEN p ELSE p + 1)
    ELSE 0

\* variant: the count restarts when the risk is not the active alert's kind
NextPersistSameKind(p, risk, act) ==
    IF risk # "NONE"
    THEN (IF risk = act THEN p + 1 ELSE 1)
    ELSE 0

\* persist = (rawRisk === active) ? (persist + 1) : (persist + 1), or 0
NextPersist(p, risk, act) ==
    IF risk # "NONE"
    THEN (IF risk = act THEN p + 1 ELSE p + 1)
    ELSE 0

\* variant: the end of the cooldown still counts as cooldown
InCooldownInclusive(nowMs, cd) == nowMs <= cd

\* now.tMs < cooldownUntilMs
InCooldown(nowMs, cd) == nowMs < cd

\* variant: one step of risk is enough
PersistOnce(p) == p >= 1

PersistReached(p) == p >= PersistNeeded

\* !inCooldown && rawRisk !== "NONE" && persist >= 2
Fires(nowMs, cd, risk, p) ==
    ~InCooldown(nowMs, cd) /\ risk # "NONE" /\ PersistReached(p)

\* variant: a cooldown of half the length
CooldownEndHalf(nowMs) == nowMs + (CooldownMin \div 2) * MsPerMin

\* variant: a cooldown of twice the length
CooldownEndDouble(nowMs) == nowMs + 2 * CooldownMin * MsPerMin

\* now.tMs + 60 * 60000
CooldownEnd(nowMs) == nowMs + CooldownMin * MsPerMin

\* variant: the alert is cleared at the entry thresholds, without margins
HysteresisNoMargin(act, sp, lo, hi) ==
    LET a1 == IF act = "HYPO" /\ RatGtInt(sp, lo) THEN "NONE" ELSE act
    IN  IF a1 = "HYPER" /\ RatLtInt(sp, hi) THEN "NONE" ELSE a1

\* the two hysteresis statements, applied to active after the firing
Hysteresis(act, sp, lo, hi) ==
    LET a1 == IF act = "HYPO" /\ RatGtInt(sp, lo + HypoExitMargin)
              THEN "NONE" ELSE act
    IN  IF a1 = "HYPER" /\ RatLtInt(sp, hi - HyperExitMargin)
        THEN "NONE" ELSE a1

(***************************************************************************)
(* backtest: the confusion counts and the metrics.                         *)
(***************************************************************************)
CountTP(c, alert, event) == IF alert /\ event THEN c + 1 ELSE c
\* variant: every alert counted as a false positive
CountFPAnyAlert(c, alert, event) == IF alert THEN c + 1 ELSE c
CountFP(c, alert, event) == IF alert /\ ~event THEN c + 1 ELSE c
\* variant: every true event counted as a false negative
CountFNAnyEvent(c, alert, event) == IF event THEN c + 1 ELSE c
CountFN(c, alert, event) == IF ~alert /\ event THEN c + 1 ELSE c

\* variant: no guard on the denominator (0/0)
precisionUnguarded(tp, fp) == Rat(tp, tp + fp)

precision(tp, fp) ==
    LET denom == tp + fp
    IN  IF denom # 0 THEN Rat(tp, denom) ELSE Rat(0, 1)

recall(tp, fn) ==
    LET denom == tp + fn
    IN  IF denom # 0 THEN Rat(tp, denom) ELSE Rat(0, 1)

FpReduction(bfp, ifp) ==
    IF bfp # 0 THEN Rat((bfp - ifp) * 100, bfp) ELSE Rat(0, 1)

Report(btp, bfp, bfn, itp, ifp, ifn) ==
    [ tag      |-> "report",
      baseline |-> [TP |-> btp, FP |-> bfp, FN |-> bfn,
                    precision |-> precision(btp, bfp), recall |-> recall(btp, bfn)],
      improved |-> [TP |-> itp, FP |-> ifp, FN |-> ifn,
                    precision |-> precision(itp, ifp), recall |-> recall(itp, ifn)],
      fpReductionPct |-> FpReduction(bfp, ifp) ]

NullResult == [tag |-> "null"]
NoResult == [tag |-> "none"]

(***************************************************************************)
(* generateSyntheticSeries.  The sum base + daily + meal + events + noise  *)
(* of a sample is a finite number that depends on the random draws; it is  *)
(* taken from draws, and only the clamp applied to it is computed.         *)
(***************************************************************************)
\* days * 24 * 60
TotalMinutes(d) == d * 24 * 60

\* Math.max(5, Math.round(totalMinutes / approxPoints))
GenStepMin(d, pts) == Max(5, MathRound(TotalMinutes(d), pts))

\* variant: the upper limit only
GenClampUpperOnly(bg) == Min(400, bg)

\* Math.max(40, Math.min(400, bg))
GenClamp(bg) == Max(40, Min(400, bg))

\* for (let m = 0; m <= totalMinutes; m += stepMin)
GenLoopCond(mm, d) == mm <= TotalMinutes(d)

(***************************************************************************)
(* Inputs.  A general trace has n samples; its first interval is firstStep *)
(* minutes and every later one restStep minutes (zero and negative         *)
(* intervals included); it is flat except for NumVar samples from index    *)
(* FirstVar on, which take any of Values.                                  *)
(***************************************************************************)
MaxLen == 21
NumVar == 4

FirstVar == LoopStart + 1
Values == {60, 150, 250}
Profiles == { <<5, 5>>, <<30, 30>>, <<60, 60>>, <<120, 120>>, <<0, 0>>,
              <<-5, -5>>, <<5, 0>>, <<0, 5>> }
RawRanges == { <<70, 180>>, <<180, 70>> }
Horizons == {30, 60}
Callers == {"direct", "runBacktest"}
TraceStartMs == 600 * MsPerMin

GeneralTrace(n, prof, vals) ==
    [ k \in 1 .. n |->
        [ tMs |-> TraceStartMs
                  + (IF k = 1 THEN 0 ELSE prof[1] + (k - 2) * prof[2]) * MsPerMin,
          bg  |-> IF (k - 1) \in FirstVar .. (FirstVar + NumVar - 1)
                  THEN vals[k - FirstVar] ELSE 150 ] ]

(***************************************************************************)
(* The scenario trace: 200 samples at 5-minute steps, flat at 150 with a   *)
(* drop to 60 over samples 100..110; noise is added to the flat samples.   *)
(* The noise of sample k is amp * motif[k mod Len(motif)].                 *)
(***************************************************************************)
MotifLen == 5

WideMotif == << -1, -1, -1, 0, 1, 0, 0, -1, -1, 1 >>
Motifs == [1 .. MotifLen -> {-1, 0, 1}] \cup {WideMotif}
Amps == {0, 8, 20}

InDip(k) == k >= 100 /\ k <= 110

ScenarioTrace(amp, motif) ==
    [ k \in 1 .. 200 |->
        [ tMs |-> (k - 1) * 5 * MsPerMin,
          bg  |-> IF InDip(k - 1) THEN 60
                  ELSE 150 + amp * motif[((k - 1) % Len(motif)) + 1] ] ]

NoiseWithin(s, a) ==
    \A k \in 1 .. Len(s) : InDip(k - 1) \/ (s[k].bg >= 150 - a /\ s[k].bg <= 150 + a)

(***************************************************************************)
(* State machine.                                                          *)
(***************************************************************************)
InitTwin ==
    /\ twinActive = "NONE" /\ twinPersist = 0 /\ twinCooldownUntilMs = 0
    /\ twinAlert = FALSE
    /\ twinTP = 0 /\ twinFP = 0 /\ twinFN = 0

\* generateSyntheticSeries is not called
InitNoGen ==
    /\ days = 0 /\ approxPoints = 0 /\ genM = 0 /\ draws = << >>

InitLocals ==
    /\ InitTwin
    /\ pc = "idle"
    /\ i = 0
    /\ horizonSteps = 0
    /\ horizonInfinite = FALSE
    /\ baseTP = 0 /\ baseFP = 0 /\ baseFN = 0
    /\ impTP = 0 /\ impFP = 0 /\ impFN = 0
    /\ active = "NONE" /\ persist = 0 /\ cooldownUntilMs = 0
    /\ baseAlert = FALSE /\ impAlert = FALSE /\ trueEvent = FALSE
    /\ rawRisk = "NONE" /\ prevRawRisk = "NONE"
    /\ m = Rat(0, 1) /\ proj = Rat(0, 1)
    /\ smoothBg = Rat(0, 1) /\ smoothProj = Rat(0, 1)
    /\ fired = {}
    /\ result = NoResult
    /\ backtestOut = ""

\* the range reaches backtest through getPrefs when runBacktest calls it;
\* syntheticSeries is taken to be any trace (generateTestSet is not modelled)
InitRange(c, rng) ==
    /\ caller = c
    /\ low  = IF c = "runBacktest" THEN getPrefs(rng[1], rng[2]).low ELSE rng[1]
    /\ high = IF c = "runBacktest" THEN getPrefs(rng[1], rng[2]).high ELSE rng[2]

Init ==
    /\ InitLocals
    /\ InitNoGen
    /\ \E c \in Callers, rng \in RawRanges : InitRange(c, rng)
    /\ horizonMin \in Horizons
    /\ \/ seriesMissing = TRUE /\ series = << >>
       \/ /\ seriesMissing = FALSE
          /\ \E n \in (MinSamples - 1) .. MaxLen, prof \in Profiles,
                vals \in [1 .. NumVar -> Values] :
                series = GeneralTrace(n, prof, vals)

InitScenario ==
    /\ InitLocals
    /\ InitNoGen
    /\ InitRange("direct", <<70, 180>>)
    /\ horizonMin = 30
    /\ seriesMissing = FALSE
    /\ \E amp \in Amps, motif \in Motifs : series = ScenarioTrace(amp, motif)

\* runBacktest: if (!syntheticSeries) { ... return; }
RunBacktestNoSeries ==
    /\ pc = "idle"
    /\ caller = "runBacktest"
    /\ seriesMissing
    /\ backtestOut' = "No synthetic series yet. Click 'Generate Test Set' first."
    /\ pc' = "done"
    /\ UNCHANGED << caller, seriesMissing, series, low, high, horizonMin, i,
                    horizonSteps, horizonInfinite, baseTP, baseFP, baseFN,
                    impTP, impFP, impFN, active, persist, cooldownUntilMs,
                    baseAlert, impAlert, trueEvent, rawRisk, m, proj, smoothBg,
                    smoothProj, prevRawRisk, fired, result >>
    /\ UNCHANGED << genVars, twinVars >>

\* backtest: if (!series || series.length < 20) return null;
BacktestInsufficient ==
    /\ pc = "idle"
    /\ caller = "direct" \/ ~seriesMissing
    /\ Insufficient(seriesMissing, series)
    /\ result' = NullResult
    /\ pc' = "returned"
    /\ UNCHANGED << caller, seriesMissing, series, low, high, horizonMin, i,
                    horizonSteps, horizonInfinite, baseTP, baseFP, baseFN,
                    impTP, impFP, impFN, active, persist, cooldownUntilMs,
                    baseAlert, impAlert, trueEvent, rawRisk, m, proj, smoothBg,
                    smoothProj, prevRawRisk, fired, backtestOut >>
    /\ UNCHANGED << genVars, twinVars >>

\* backtest, from its entry to the first test of the loop condition
BacktestBegin ==
    /\ pc = "idle"
    /\ ~Insufficient(seriesMissing, series)
    /\ horizonInfinite' = HorizonIsInfinite(series, horizonMin)
    /\ horizonSteps' = IF HorizonIsInfinite(series, horizonMin) THEN 0
                       ELSE HorizonSteps(series, horizonMin)
    /\ baseTP' = 0 /\ baseFP' = 0 /\ baseFN' = 0
    /\ impTP' = 0 /\ impFP' = 0 /\ impFN' = 0
    /\ active' = "NONE" /\ persist' = 0 /\ cooldownUntilMs' = 0
    /\ i' = LoopStart
    /\ pc' = "loop"
    /\ UNCHANGED << caller, seriesMissing, series, low, high, horizonMin,
                    baseAlert, impAlert, trueEvent, rawRisk, m, proj, smoothBg,
                    smoothProj, prevRawRisk, fired, result, backtestOut >>
    /\ UNCHANGED << genVars, twinVars >>

\* one iteration of backtest's loop
LoopBodyCore ==
    /\ pc = "loop"
    /\ LoopCond(series, i, horizonSteps, horizonInfinite)
    /\ LET nowMs  == At(series, i).tMs
           event  == TrueEvent(series, low, high, i, horizonSteps)
           bAlert == BaseAlert(series, low, high, i, horizonMin)
           risk   == RawRisk(series, low, high, i, horizonMin)
           p      == NextPersist(persist, risk, active)
           fire   == Fires(nowMs, cooldownUntilMs, risk, p)
           sp     == SmoothProj(series, i, horizonMin)
       IN  /\ trueEvent' = event
           /\ baseAlert' = bAlert
           /\ m' = slopePerMin(series, i, SlopeWindow)
           /\ proj' = projectedBg(series, i, horizonMin)
           /\ baseTP' = CountTP(baseTP, bAlert, event)
           /\ baseFP' = CountFP(baseFP, bAlert, event)
           /\ baseFN' = CountFN(baseFN, bAlert, event)
           /\ smoothBg' = SmoothBg(series, i)
           /\ smoothProj' = sp
           /\ rawRisk' = risk
           /\ prevRawRisk' = rawRisk
           /\ persist' = p
           /\ impAlert' = fire
           /\ cooldownUntilMs' = IF fire THEN CooldownEnd(nowMs) ELSE cooldownUntilMs
           /\ active' = Hysteresis(IF fire THEN risk ELSE active, sp, low, high)
           /\ fired' = IF fire THEN fired \cup {nowMs} ELSE fired
           /\ impTP' = CountTP(impTP, fire, event)
           /\ impFP' = CountFP(impFP, fire, event)
           /\ impFN' = CountFN(impFN, fire, event)
    /\ i' = i + 1
    /\ UNCHANGED << caller, seriesMissing, series, low, high, horizonMin, pc,
                    horizonSteps, horizonInfinite, result, backtestOut >>
    /\ UNCHANGED genVars

LoopBody == LoopBodyCore /\ UNCHANGED twinVars

\* the same iteration, with the Improved policy's statements run a second
\* time on the twin variables after the twin's active has been given an
\* arbitrary value
LoopBodyTwin ==
    /\ LoopBodyCore
    /\ \E a \in {"NONE", "HYPO", "HYPER"} :
          LET nowMs == At(series, i).tMs
              event == TrueEvent(series, low, high, i, horizonSteps)
              risk  == RawRisk(series, low, high, i, horizonMin)
              p     == NextPersist(twinPersist, risk, a)
              fire  == Fires(nowMs, twinCooldownUntilMs, risk, p)
              sp    == SmoothProj(series, i, horizonMin)
          IN  /\ twinPersist' = p
              /\ twinAlert' = fire
              /\ twinCooldownUntilMs' =
                    IF fire THEN CooldownEnd(nowMs) ELSE twinCooldownUntilMs
              /\ twinActive' = Hysteresis(IF fire THEN risk ELSE a, sp, low, high)
              /\ twinTP' = CountTP(twinTP, fire, event)
              /\ twinFP' = CountFP(twinFP, fire, event)
              /\ twinFN' = CountFN(twinFN, fire, event)

\* the loop condition fails: the metrics are computed and the report returned
BacktestReturn ==
    /\ pc = "loop"
    /\ ~LoopCond(series, i, horizonSteps, horizonInfinite)
    /\ result' = Report(baseTP, baseFP, baseFN, impTP, impFP, impFN)
    /\ pc' = "returned"
    /\ UNCHANGED << caller, seriesMissing, series, low, high, horizonMin, i,
                    horizonSteps, horizonInfinite, baseTP, baseFP, baseFN,
                    impTP, impFP, impFN, active, persist, cooldownUntilMs,
                    baseAlert, impAlert, trueEvent, rawRisk, m, proj, smoothBg,
                    smoothProj, prevRawRisk, fired, backtestOut >>
    /\ UNCHANGED << genVars, twinVars >>

\* runBacktest after the call: the failure message, or the report (of which
\* only the first line is kept)
RunBacktestShow ==
    /\ pc = "returned"
    /\ caller = "runBacktest"
    /\ backtestOut' = IF result.tag = "null"
                      THEN "Backtest failed (insufficient series length)."
                      ELSE "Backtest (synthetic)"
    /\ pc' = "done"
    /\ UNCHANGED << caller, seriesMissing, series, low, high, horizonMin, i,
                    horizonSteps, horizonInfinite, baseTP, baseFP, baseFN,
                    impTP, impFP, impFN, active, persist, cooldownUntilMs,
                    baseAlert, impAlert, trueEvent, rawRisk, m, proj, smoothBg,
                    smoothProj, prevRawRisk, fired, result >>
    /\ UNCHANGED << genVars, twinVars >>

Next ==
    \/ RunBacktestNoSeries
    \/ BacktestInsufficient
    \/ BacktestBegin
    \/ LoopBody
    \/ BacktestReturn
    \/ RunBacktestShow

Spec == Init /\ [][Next]_vars

NextScenario ==
    \/ BacktestBegin
    \/ LoopBody
    \/ BacktestReturn

SpecScenario == InitScenario /\ [][NextScenario]_vars

\* direct calls of backtest, each iteration run on the twin as well
InitTwinRun ==
    /\ InitLocals
    /\ InitNoGen
    /\ \E rng \in RawRanges : InitRange("direct", rng)
    /\ horizonMin \in Horizons
    /\ seriesMissing = FALSE
    /\ \E n \in MinSamples .. MaxLen, prof \in Profiles,
          vals \in [1 .. NumVar -> Values] :
          series = GeneralTrace(n, prof, vals)

NextTwin ==
    \/ BacktestBegin
    \/ LoopBodyTwin
    \/ BacktestReturn

SpecTwin == InitTwinRun /\ [][NextTwin]_vars

(***************************************************************************)
(* generateSyntheticSeries(days, approxPoints), called directly.           *)
(***************************************************************************)
MaxDays == 2
DrawLen == 2

PointChoices == {1, 2, 3, 400}
RawValues == {39, 40, 150, 400, 401}

\* Date.now()
DateNow == (MaxDays + 2) * 24 * 60 * MsPerMin

\* Date.now() - days * 24 * 60 * 60 * 1000
StartMs(d) == DateNow - d * 24 * 60 * 60 * 1000

backtestLocals ==
    << i, horizonSteps, horizonInfinite, baseTP, baseFP, baseFN,
       impTP, impFP, impFN, active, persist, cooldownUntilMs,
       baseAlert, impAlert, trueEvent, rawRisk, m, proj, smoothBg,
       smoothProj, prevRawRisk, fired, result, backtestOut >>

InitGen ==
    /\ InitLocals
    /\ InitRange("direct", <<70, 180>>)
    /\ horizonMin = 30
    /\ seriesMissing = TRUE /\ series = << >>
    /\ days \in 1 .. MaxDays
    /\ approxPoints \in PointChoices
    /\ genM = 0
    /\ draws \in [1 .. DrawLen -> RawValues]

\* generateSyntheticSeries, from its entry to the first test of its loop
\* condition: const series = []; m = 0
GenBegin ==
    /\ pc = "idle"
    /\ series' = << >>
    /\ genM' = 0
    /\ pc' = "gen"
    /\ UNCHANGED << caller, seriesMissing, low, high, horizonMin,
                    days, approxPoints, draws >>
    /\ UNCHANGED << backtestLocals, twinVars >>

\* one iteration of the generator's loop: one sample is pushed
GenStep ==
    /\ pc = "gen"
    /\ GenLoopCond(genM, days)
    /\ LET tMs == StartMs(days) + genM * 60 * 1000
           bg  == draws[(Len(series) % Len(draws)) + 1]
       IN  series' = Append(series, [tMs |-> tMs, bg |-> GenClamp(bg)])
    /\ genM' = genM + GenStepMin(days, approxPoints)
    /\ UNCHANGED << caller, seriesMissing, low, high, horizonMin, pc,
                    days, approxPoints, draws >>
    /\ UNCHANGED << backtestLocals, twinVars >>

\* the loop condition fails: return series
GenReturn ==
    /\ pc = "gen"
    /\ ~GenLoopCond(genM, days)
    /\ seriesMissing' = FALSE
    /\ pc' = "generated"
    /\ UNCHANGED << caller, series, low, high, horizonMin, genVars >>
    /\ UNCHANGED << backtestLocals, twinVars >>

NextGen ==
    \/ GenBegin
    \/ GenStep
    \/ GenReturn

SpecGen == InitGen /\ [][NextGen]_vars

(***************************************************************************)
(* Properties.                                                             *)
(***************************************************************************)
StrictlyIncreasing(s) ==
    \A k \in 1 .. (Len(s) - 1) : s[k].tMs < s[k + 1].tMs

Evaluated == i - LoopStart

\* C1: in a backtest over a trace with strictly increasing timestamps, any
\* two firings of the Improved policy are at least 60 minutes of trace time
\* apart: after a firing at t there is no firing at a later time before t + 60 min.
C1_CooldownSpacing ==
    StrictlyIncreasing(series) =>
        \A a \in fired, b \in fired : a < b => b >= a + 60 * 60000

\* a second firing, after a step on which risk was present and persistent
\* but the cooldown suppressed the alert
C1_Witness ==
    /\ pc = "loop" /\ i >= LoopStart + 2
    /\ StrictlyIncreasing(series)
    /\ impAlert
    /\ Cardinality(fired) >= 2
    /\ prevRawRisk # "NONE" /\ persist >= 3
    /\ At(series, i - 2).tMs \notin fired

\* C2: the Improved policy fires only on a step whose rawRisk is not NONE
\* and whose previous evaluated step had a rawRisk that is not NONE either
\* (never on the first evaluated step, never on the first step of a run of
\* risk), and so never in a backtest whose rawRisk is NONE on every step.
C2_PersistenceGate ==
    /\ impAlert => (rawRisk # "NONE" /\ prevRawRisk # "NONE" /\ Evaluated >= 2)
    /\ fired # {} =>
          \E idx \in LoopStart .. (i - 1) :
              RawRisk(series, low, high, idx, horizonMin) # "NONE"

\* the first step of a run of risk, outside any cooldown: no alert
C2_Witness ==
    /\ pc = "loop" /\ Evaluated >= 2
    /\ rawRisk # "NONE" /\ prevRawRisk = "NONE"
    /\ ~InCooldown(At(series, i - 1).tMs, cooldownUntilMs)
    /\ ~impAlert

ConfusionDelta(alert, event) ==
    IF alert /\ event THEN <<1, 0, 0>>
    ELSE IF alert /\ ~event THEN <<0, 1, 0>>
    ELSE IF ~alert /\ event THEN <<0, 0, 1>>
    ELSE <<0, 0, 0>>

\* C3: every iteration changes the counts of each policy by the confusion
\* rule applied to that policy's alert and the index's trueEvent (exactly
\* one of TP, FP, FN grows by one, or none); no step ever decreases a
\* count; and TP+FP+FN of each policy is at most the number of evaluated
\* indices.
C3_ConfusionRule ==
    /\ [][ (pc = "loop" /\ pc' = "loop") =>
             /\ <<baseTP' - baseTP, baseFP' - baseFP, baseFN' - baseFN>>
                   = ConfusionDelta(baseAlert', trueEvent')
             /\ <<impTP' - impTP, impFP' - impFP, impFN' - impFN>>
                   = ConfusionDelta(impAlert', trueEvent') ]_vars
    /\ [][ /\ baseTP' >= baseTP /\ baseFP' >= baseFP /\ baseFN' >= baseFN
           /\ impTP' >= impTP /\ impFP' >= impFP /\ impFN' >= impFN ]_vars
    /\ [](pc = "loop" \/ result.tag = "report" =>
             /\ baseTP + baseFP + baseFN <= Evaluated
             /\ impTP + impFP + impFN <= Evaluated)

\* all four outcomes have happened for the Baseline policy, three for Improved
C3_Witness ==
    /\ baseTP >= 1 /\ baseFP >= 1 /\ baseFN >= 1
    /\ baseTP + baseFP + baseFN < Evaluated
    /\ impTP >= 1 /\ impFN >= 1

InUnit(r) == r.d > 0 /\ r.n >= 0 /\ r.n <= r.d
ExactlyZero(r) == r.d > 0 /\ r.n = 0

\* C6: in every report, precision and recall of each policy are in [0,1],
\* precision is 0 when TP+FP = 0, recall is 0 when TP+FN = 0, and
\* fpReductionPct is 0 when the Baseline FP count is 0.
C6_MetricBounds ==
    result.tag = "report" =>
        /\ \A pol \in {result.baseline, result.improved} :
              /\ InUnit(pol.precision) /\ InUnit(pol.recall)
              /\ pol.TP + pol.FP = 0 => ExactlyZero(pol.precision)
              /\ pol.TP + pol.FN = 0 => ExactlyZero(pol.recall)
        /\ result.baseline.FP = 0 => ExactlyZero(result.fpReductionPct)

\* a report with a zero denominator (Improved never alerted) beside proper
\* fractions (Baseline)
C6_Witness ==
    /\ result.tag = "report"
    /\ result.improved.TP + result.improved.FP = 0
    /\ result.baseline.precision.n > 0
    /\ result.baseline.precision.n < result.baseline.precision.d
    /\ result.baseline.recall.n > 0
    /\ result.baseline.recall.n < result.baseline.recall.d

\* C7: backtest called with a missing trace or fewer than 20 samples
\* returns null without evaluating an index or counting anything, and
\* runBacktest then shows the failure message.
C7_InsufficientNull ==
    (result.tag # "none" /\ (seriesMissing \/ Len(series) < 20)) =>
        /\ result = NullResult
        /\ i = 0
        /\ baseTP + baseFP + baseFN + impTP + impFP + impFN = 0
        /\ pc = "done" => backtestOut = "Backtest failed (insufficient series length)."

\* runBacktest has shown the failure message for a trace of 19 samples
C7_Witness ==
    /\ pc = "done" /\ caller = "runBacktest"
    /\ ~seriesMissing /\ Len(series) = 19
    /\ result = NullResult
    /\ backtestOut = "Backtest failed (insufficient series length)."

\* C8: a trace of at least 20 samples with length - horizonSteps <= 10 (no
\* index can be evaluated) gets the insufficient-data result, not a report.
C8_NoSilentEmptyReport ==
    ( /\ result.tag # "none"
      /\ ~seriesMissing /\ Len(series) >= 20
      /\ StrictlyIncreasing(series)
      /\ ~horizonInfinite
      /\ Len(series) - horizonSteps <= 10 ) => result.tag = "null"

\* C9: no sample (of a well-formed trace) is classified against a range with
\* low >= high: backtest has rejected the call or made the range proper
\* before its first iteration.
C9_RangeChecked ==
    (pc = "loop" /\ i > LoopStart /\ StrictlyIncreasing(series)) => low < high

\* C10: with a zero or negative interval between the first two samples the
\* horizon-step computation does not divide by zero, and with a zero or
\* negative elapsed time over the slope window the slope is 0 and each
\* projection equals the value it starts from.
C10_DegenerateIntervalGuarded ==
    /\ (pc = "loop" /\ StepMin(series) <= 0) => ~horizonInfinite
    /\ (pc = "loop" /\ i > LoopStart
          /\ At(series, i - 1).tMs <= At(series, Max(0, i - 6)).tMs)
          => /\ RatIsZero(m)
             /\ RatEq(proj, Rat(At(series, i - 1).bg, 1))
             /\ RatEq(smoothProj, smoothBg)

PlainScenario == NoiseWithin(series, 0)

FpNotWorse ==
    /\ result.improved.FP <= result.baseline.FP
    /\ result.fpReductionPct.n >= 0

\* C4 as stated: on the scenario trace and on every noisy variant of it the
\* Improved FP count is at most the Baseline FP count.
C4_FpNeverWorse ==
    result.tag = "report" => FpNotWorse

\* C4, amended: the same on the scenario trace and on every variant whose
\* noise on the flat samples is at most 8 mg/dL in magnitude.
C4_FpNotWorseSmallNoise ==
    (result.tag = "report" /\ NoiseWithin(series, 8)) => FpNotWorse

\* a noisy variant within 8 mg/dL on which both policies have false positives
C4_Witness ==
    /\ result.tag = "report"
    /\ NoiseWithin(series, 8) /\ ~PlainScenario
    /\ result.improved.FP >= 1
    /\ result.baseline.FP > result.improved.FP

\* C5: on the scenario trace without noise both policies report TP >= 1.
C5_ScenarioTP ==
    (result.tag = "report" /\ PlainScenario) =>
        /\ result.baseline.TP >= 1
        /\ result.improved.TP >= 1

\* the report of the scenario trace without noise
C5_Witness ==
    /\ result.tag = "report" /\ PlainScenario
    /\ Len(series) = 200
    /\ result.baseline.TP = 10
    /\ result.improved.TP = 1

(***************************************************************************)
(* Properties of the iteration: ground truth, horizon, Improved policy.    *)
(***************************************************************************)
OutOfRange(k) == At(series, k).bg < low \/ At(series, k).bg > high

\* some sample among k+1 .. k+horizonSteps is out of range
Truth(k) == \E j \in (k + 1) .. (k + horizonSteps) : OutOfRange(j)

InLoopStep == pc = "loop" /\ pc' = "loop"

\* C11: the evaluated indices are exactly 10 .. length - horizonSteps - 1,
\* in order; at each of them all horizonSteps future samples exist and
\* trueEvent holds iff one of the samples i+1 .. i+horizonSteps is < low or
\* > high (sample i itself does not count).
C11_EvaluatedWindow ==
    /\ [][ (pc = "idle" /\ pc' = "loop") => i' = 10 ]_vars
    /\ [][ InLoopStep =>
             /\ i' = i + 1
             /\ i >= 10 /\ i <= Len(series) - horizonSteps - 1
             /\ i + horizonSteps <= Len(series) - 1
             /\ trueEvent' = Truth(i) ]_vars
    /\ []( (result.tag = "report" /\ ~horizonInfinite) =>
             i = Max(10, Len(series) - horizonSteps) )

\* an index whose only out-of-range future sample is the last of its window
C11_Witness ==
    /\ pc = "loop" /\ i > LoopStart
    /\ horizonSteps >= 2
    /\ trueEvent
    /\ OutOfRange(i - 1 + horizonSteps)
    /\ \A k \in (i - 1) .. (i - 2 + horizonSteps) : ~OutOfRange(k)

\* r is n/d rounded to the nearest integer, halves up (d > 0)
IsRounded(r, n, d) == (2 * r - 1) * d <= 2 * n /\ 2 * n < (2 * r + 1) * d

FirstIntervalMin == (At(series, 1).tMs - At(series, 0).tMs) \div 60000

HorizonComputed == (pc = "loop" \/ result.tag = "report") /\ ~horizonInfinite

\* C12 as stated: for a positive horizon and a positive first interval,
\* horizonSteps is round(horizonMinutes / stepMinutes).
C12_HorizonRounded ==
    (HorizonComputed /\ horizonMin > 0 /\ FirstIntervalMin > 0) =>
        IsRounded(horizonSteps, horizonMin, FirstIntervalMin)

\* C12, amended: horizonSteps is round(horizonMinutes / stepMinutes), but at
\* least 1.
C12_HorizonRoundedAtLeastOne ==
    (HorizonComputed /\ horizonMin > 0 /\ FirstIntervalMin > 0) =>
        \E r \in 0 .. (2 * horizonMin) :
            /\ IsRounded(r, horizonMin, FirstIntervalMin)
            /\ horizonSteps = IF r >= 1 THEN r ELSE 1

\* a horizon of less than half a sampling interval: the quotient rounds to 0
C12_Witness ==
    /\ HorizonComputed /\ horizonMin > 0 /\ FirstIntervalMin > 0
    /\ IsRounded(0, horizonMin, FirstIntervalMin)
    /\ horizonSteps = 1

\* the value of active after the hysteresis statements, from the thresholds
AfterClear(a, sp) ==
    IF \/ a = "HYPO" /\ sp.n > (low + 5) * sp.d
       \/ a = "HYPER" /\ sp.n < (high - 10) * sp.d
    THEN "NONE" ELSE a

\* C14: on every evaluated step the Improved policy fires iff the step is
\* not before cooldownUntil, rawRisk is not NONE and the updated persistence
\* count is >= 2; a firing has kind rawRisk, sets active to rawRisk (subject
\* to the hysteresis of the same step) and cooldownUntil to the step's time
\* + 60 min; without a firing cooldownUntil is unchanged.
C14_FiringRule ==
    [][ InLoopStep =>
          /\ impAlert' <=> ( /\ At(series, i).tMs >= cooldownUntilMs
                             /\ rawRisk' # "NONE"
                             /\ persist' >= 2 )
          /\ impAlert' =>
                /\ rawRisk' \in {"HYPO", "HYPER"}
                /\ active' = AfterClear(rawRisk', smoothProj')
                /\ cooldownUntilMs' = At(series, i).tMs + 60 * 60000
                /\ fired' = fired \cup {At(series, i).tMs}
          /\ ~impAlert' =>
                /\ cooldownUntilMs' = cooldownUntilMs
                /\ fired' = fired ]_vars

\* a firing on the very step at which an earlier cooldown ends
C14_Witness ==
    /\ pc = "loop" /\ i > LoopStart
    /\ impAlert
    /\ (At(series, i - 1).tMs - 60 * 60000) \in fired
    /\ active = rawRisk

RiskAt(k) == RawRisk(series, low, high, k, horizonMin) # "NONE"

\* the number of consecutive evaluated steps with risk, ending at step k
RiskRun(k) ==
    Cardinality({ j \in LoopStart .. k : \A q \in j .. k : RiskAt(q) })

\* C15: after every evaluated step persist is the length of the run of
\* consecutive evaluated steps with rawRisk # NONE that ends at this step
\* (HYPO and HYPER alike, whatever fired or was suppressed), and it is 0
\* exactly when this step's rawRisk is NONE.
C15_PersistIsRunLength ==
    (i > LoopStart /\ result.tag # "null") =>
        /\ persist = RiskRun(i - 1)
        /\ persist = 0 <=> rawRisk = "NONE"

\* a HYPO step followed by a HYPER step: the count is 2
C15_Witness ==
    /\ pc = "loop" /\ i >= LoopStart + 2
    /\ prevRawRisk = "HYPO" /\ rawRisk = "HYPER"
    /\ persist = 2

\* C16: active is NONE when the loop starts; an iteration that fires leaves
\* it at rawRisk unless the hysteresis clears it on the same step, and an
\* iteration that does not fire leaves it unchanged unless the hysteresis
\* clears it (HYPO when the smoothed projection exceeds low + 5, HYPER when
\* it is below high - 10); nothing else changes it.
C16_ActiveTransitions ==
    /\ []( (pc = "loop" /\ i = LoopStart) => active = "NONE" )
    /\ [][ InLoopStep =>
             active' = IF impAlert' THEN AfterClear(rawRisk', smoothProj')
                       ELSE AfterClear(active, smoothProj') ]_vars
    /\ [][ (~InLoopStep /\ pc # "idle") => active' = active ]_vars

\* an alert state kept over a step that did not fire
C16_Witness ==
    /\ pc = "loop" /\ i > LoopStart
    /\ ~impAlert
    /\ active # "NONE"

IntervalsAtLeast(s, mins) ==
    \A k \in 1 .. (Len(s) - 1) : s[k + 1].tMs - s[k].tMs >= mins * 60000

\* C18: on a trace whose sampling intervals are all 60 minutes or more, the
\* Improved policy fires on every evaluated step with rawRisk # NONE and
\* persist >= 2 (and on no other): the cooldown suppresses nothing.
C18_NoSuppressionAtLongIntervals ==
    (i > LoopStart /\ result.tag # "null" /\ IntervalsAtLeast(series, 60)) =>
        (impAlert <=> (rawRisk # "NONE" /\ persist >= 2))

\* firings on two consecutive steps of a trace with 60-minute intervals
C18_Witness ==
    /\ pc = "loop" /\ i >= LoopStart + 2
    /\ IntervalsAtLeast(series, 60)
    /\ impAlert
    /\ At(series, i - 2).tMs \in fired
    /\ At(series, i - 1).tMs - At(series, i - 2).tMs = 60 * 60000

\* the number of evaluated indices so far at which trueEvent holds
EventCount == Cardinality({ k \in LoopStart .. (i - 1) : Truth(k) })

\* C19: at every point of a backtest and in the report, TP + FN of Baseline
\* and TP + FN of Improved both equal the number of evaluated indices so
\* far at which trueEvent holds.
C19_SameEventTotal ==
    /\ (pc = "loop" \/ result.tag = "report") =>
          /\ baseTP + baseFN = EventCount
          /\ impTP + impFN = EventCount
    /\ result.tag = "report" =>
          /\ result.baseline.TP + result.baseline.FN = EventCount
          /\ result.improved.TP + result.improved.FN = EventCount

\* events seen, with the two policies splitting them differently
C19_Witness ==
    /\ result.tag = "report"
    /\ EventCount >= 2
    /\ result.baseline.TP > result.improved.TP
    /\ result.improved.TP >= 1

\* C13: every trace generateSyntheticSeries returns has consecutive samples
\* exactly max(5, round(days * 1440 / approxPoints)) minutes apart, hence
\* strictly increasing timestamps, and every value within [40, 400].
C13_GeneratedTrace ==
    pc = "generated" =>
        /\ Len(series) >= 1
        /\ \E r \in 0 .. (days * 1440) :
             /\ IsRounded(r, days * 1440, approxPoints)
             /\ \A k \in 1 .. (Len(series) - 1) :
                  series[k + 1].tMs - series[k].tMs
                      = (IF r >= 5 THEN r ELSE 5) * 60000
        /\ \A k \in 1 .. (Len(series) - 1) : series[k].tMs < series[k + 1].tMs
        /\ \A k \in 1 .. Len(series) : series[k].bg >= 40 /\ series[k].bg <= 400

\* a returned trace on the 5-minute grid (the quotient rounds to less than
\* 5) in which draws below 40 and above 400 were clamped
C13_Witness ==
    /\ pc = "generated"
    /\ 2 * days * 1440 < 9 * approxPoints
    /\ series[2].tMs - series[1].tMs = 5 * 60000
    /\ draws[1] < 40 /\ series[1].bg = 40
    /\ draws[2] > 400 /\ series[2].bg = 400

\* C17: the value of active influences neither the firing nor any count: a
\* second run of the Improved policy whose active is given an arbitrary
\* value before every iteration has the same alert, persist, cooldownUntilMs
\* and counts as the first after every iteration, and the same report.
C17_ActiveHasNoInfluence ==
    /\ twinAlert = impAlert
    /\ twinPersist = persist
    /\ twinCooldownUntilMs = cooldownUntilMs
    /\ twinTP = impTP /\ twinFP = impFP /\ twinFN = impFN
    /\ result.tag = "report" =>
          result = Report(baseTP, baseFP, baseFN, twinTP, twinFP, twinFN)

\* a report of two runs that both alerted and ended in different alert states
C17_Witness ==
    /\ result.tag = "report"
    /\ twinActive # active
    /\ impTP + impFP >= 2
    /\ twinTP + twinFP >= 2

====
